---- MODULE Spec2Model ----
(***************************************************************************)
(* Model of pythonbuild/cpython.py: the Setup.local derivation             *)
(* (derive_setup_local), the Setup line parser (parse_setup_line), the     *)
(* config.c parser (parse_config_c) and the version / target predicates.   *)
(*                                                                         *)
(* Text (str and bytes alike, all ASCII) is a sequence of one-character    *)
(* strings, so that splitting, stripping, prefix tests and the regular     *)
(* expressions act on the same characters as the Python code.              *)
(***************************************************************************)
EXTENDS Integers, Sequences, FiniteSets, TLC

VARIABLES
    python_version,        \* argument: the active version string
    target_triple,         \* argument: the active target triple
    extension_modules,     \* argument: name -> info (the YAML metadata)
    setup_lines,           \* Modules/Setup, as readlines() returns it
    config_c_in,           \* Modules/config.c.in, the text of the file
    pc,                    \* position in derive_setup_local / parse_setup_line
    disabled, ignored, setup_enabled_wanted, config_c_only_wanted,
    dist_modules, setup_enabled_actual, config_c_extensions,
    todo,                  \* names the loop of line 347 has not visited yet
    name,                  \* the module of the last iteration of that loop
    line,                  \* the line that iteration synthesized (line 428), empty
                           \* when it synthesized none; the argument of
                           \* parse_setup_line when that is called alone
    parsed,                \* what parse_setup_line returned for line
    dest_lines,            \* list of lines of Setup.local
    extra_cflags,          \* object path -> list of hoisted defines
    result,                \* the returned dict, or "None" before the return
    error                  \* the exception raised, or "None"

vars == <<python_version, target_triple, extension_modules, setup_lines,
          config_c_in, pc, disabled, ignored, setup_enabled_wanted,
          config_c_only_wanted, dist_modules, setup_enabled_actual,
          config_c_extensions, todo, name, line, parsed, dest_lines,
          extra_cflags, result, error>>

-----------------------------------------------------------------------------
(* Bounds of the model. *)

\* The active versions are 3.9 .. 3.MaxMinor (and a few fixed others).
MaxMinor == 12

\* parse_setup_line is applied to lines of at most MaxWords words.
MaxWords == 2

-----------------------------------------------------------------------------
(* Text helpers: Python's str / bytes methods on sequences of characters. *)

\* The operators below recurse over the words, parts or matches of a text,
\* never over its characters.

\* The ASCII whitespace that bytes.split(), bytes.rstrip() and \s of a bytes
\* pattern act on (the model has no \v).
Whitespace == {" ", "\t", "\n", "\r", "\f"}

IsSpace(c) == c \in Whitespace

\* s[i], or "" past either end
At(s, i) == IF i \in 1..Len(s) THEN s[i] ELSE ""

\* The end (exclusive) of the longest run of characters of C from position i.
RunEnd(s, i, C) ==
    CHOOSE k \in i..(Len(s) + 1) :
        /\ \A m \in i..(k - 1) : s[m] \in C
        /\ (k = Len(s) + 1 \/ s[k] \notin C)

\* The end (exclusive) of the longest run of characters outside C from i.
RunEndNot(s, i, C) ==
    CHOOSE k \in i..(Len(s) + 1) :
        /\ \A m \in i..(k - 1) : s[m] \notin C
        /\ (k = Len(s) + 1 \/ s[k] \in C)

\* The first position >= i that holds c, or 0.
FirstFrom(s, i, c) ==
    IF \E k \in i..Len(s) : s[k] = c
    THEN CHOOSE k \in i..Len(s) : s[k] = c /\ \A m \in i..(k - 1) : s[m] # c
    ELSE 0

\* s.rstrip()
RStrip(s) ==
    LET keep == {i \in 1..Len(s) : ~IsSpace(s[i])}
    IN IF keep = {} THEN <<>>
       ELSE SubSeq(s, 1, CHOOSE i \in keep : \A j \in keep : j <= i)

\* s.index(c) + 1, or 0 when c is not in s.
IndexOf(s, c) == FirstFrom(s, 1, c)

StartsWith(s, pre) == Len(pre) <= Len(s) /\ SubSeq(s, 1, Len(pre)) = pre

EndsWith(s, suf) ==
    Len(suf) <= Len(s) /\ SubSeq(s, Len(s) - Len(suf) + 1, Len(s)) = suf

\* sub in s
Contains(s, sub) ==
    \E i \in 1..(Len(s) - Len(sub) + 1) : SubSeq(s, i, i + Len(sub) - 1) = sub

RECURSIVE SplitWsFrom(_, _)
SplitWsFrom(s, i) ==
    LET st == RunEnd(s, i, Whitespace)
        en == RunEndNot(s, st, Whitespace)
    IN IF st > Len(s) THEN <<>>
       ELSE <<SubSeq(s, st, en - 1)>> \o SplitWsFrom(s, en)

\* s.split(): the maximal runs of non-whitespace.
SplitWs(s) == SplitWsFrom(s, 1)

RECURSIVE SplitOnFrom(_, _, _)
SplitOnFrom(s, c, i) ==
    LET k == FirstFrom(s, i, c)
    IN IF k = 0 THEN <<SubSeq(s, i, Len(s))>>
       ELSE <<SubSeq(s, i, k - 1)>> \o SplitOnFrom(s, c, k + 1)

\* s.split(c): empty parts are kept.
SplitOn(s, c) == SplitOnFrom(s, c, 1)

RECURSIVE JoinWith(_, _)
\* sep.join(parts)
JoinWith(parts, sep) ==
    IF parts = <<>> THEN <<>>
    ELSE IF Len(parts) = 1 THEN parts[1]
    ELSE parts[1] \o sep \o JoinWith(Tail(parts), sep)

\* The code points of the characters the model uses, in ASCII order.
AsciiOrder ==
    <<"\t", "\n", "\f", "\r", " ", "\"", "#", "(", ")", "*", "+", ",", "-", ".", "/",
      "0", "1", "2", "3", "4", "5", "6", "7", "8", "9", ":", ";", "=",
      "A", "B", "C", "D", "E", "F", "G", "H", "I", "J", "K", "L", "M",
      "N", "O", "P", "Q", "R", "S", "T", "U", "V", "W", "X", "Y", "Z",
      "[", "]", "_",
      "a", "b", "c", "d", "e", "f", "g", "h", "i", "j", "k", "l", "m",
      "n", "o", "p", "q", "r", "s", "t", "u", "v", "w", "x", "y", "z",
      "{", "}">>

Ord(c) == CHOOSE i \in 1..Len(AsciiOrder) : AsciiOrder[i] = c

Lower == {AsciiOrder[i] : i \in Ord("a")..Ord("z")}
Upper == {AsciiOrder[i] : i \in Ord("A")..Ord("Z")}
Digit == {AsciiOrder[i] : i \in Ord("0")..Ord("9")}

\* \w of a bytes pattern: [a-zA-Z0-9_]
IsWordChar(c) == c \in Lower \cup Upper \cup Digit \cup {"_"}

\* a < b for str and for bytes: lexicographic by code point.
TextLess(a, b) ==
    LET d == {i \in 1..Len(a) : i > Len(b) \/ a[i] # b[i]}
        f == CHOOSE i \in d : \A j \in d : i <= j
    IN IF d = {} THEN Len(a) < Len(b)
       ELSE f <= Len(b) /\ Ord(a[f]) < Ord(b[f])

RECURSIVE Sorted(_)
\* sorted(S) of a set of texts
Sorted(S) ==
    IF S = {} THEN <<>>
    ELSE LET m == CHOOSE x \in S : \A y \in S \ {x} : TextLess(x, y)
         IN <<m>> \o Sorted(S \ {m})

DigitValue(c) == Ord(c) - Ord("0")

RECURSIVE ParseInt(_)
\* int(s) of a string of decimal digits
ParseInt(s) ==
    IF s = <<>> THEN 0
    ELSE 10 * ParseInt(SubSeq(s, 1, Len(s) - 1)) + DigitValue(s[Len(s)])

RECURSIVE Dec(_)
\* str(n) of a natural number
Dec(n) ==
    IF n < 10 THEN <<AsciiOrder[Ord("0") + n]>>
    ELSE Dec(n \div 10) \o <<AsciiOrder[Ord("0") + (n % 10)]>>

\* info.get(key, default)
Get(info, key, default) == IF key \in DOMAIN info THEN info[key] ELSE default

-----------------------------------------------------------------------------
(* meets_python_minimum_version / meets_python_maximum_version *)

\* int(parts[0]), int(parts[1]) of v.split(".")
VersionPair(v) ==
    LET parts == SplitOn(v, ".")
    IN <<ParseInt(parts[1]), ParseInt(parts[2])>>

\* Python's a <= b on pairs of integers
PairLeq(a, b) == a[1] < b[1] \/ (a[1] = b[1] /\ a[2] <= b[2])

\* A plausible slip: the version strings compared as text.
meets_python_minimum_version_text(got, wanted) ==
    got = wanted \/ TextLess(wanted, got)

meets_python_minimum_version(got, wanted) ==
    PairLeq(VersionPair(wanted), VersionPair(got))

meets_python_maximum_version(got, wanted) ==
    PairLeq(VersionPair(got), VersionPair(wanted))

-----------------------------------------------------------------------------
(* re.match(p, target_triple), for the patterns of the metadata: literal   *)
(* characters, "." and a starred item ("x*", ".*").                        *)

CharMatch(pch, c) == pch = "." \/ pch = c

RECURSIVE ReMatchAt(_, _, _, _)
ReMatchAt(p, i, s, j) ==
    IF i > Len(p) THEN TRUE
    ELSE IF i < Len(p) /\ p[i + 1] = "*"
         THEN \E k \in j..(Len(s) + 1) :
                 /\ \A m \in j..(k - 1) : CharMatch(p[i], s[m])
                 /\ ReMatchAt(p, i + 2, s, k)
    ELSE /\ j <= Len(s)
         /\ CharMatch(p[i], s[j])
         /\ ReMatchAt(p, i + 1, s, j + 1)

\* re.match anchors at the start of s only.
ReMatch(p, s) == ReMatchAt(p, 1, s, 1)

\* any(re.match(p, target_triple) for p in targets)
AnyTargetMatch(targets, triple) ==
    \E i \in 1..Len(targets) : ReMatch(targets[i], triple)

-----------------------------------------------------------------------------
(* link_for_target *)

link_for_target(lib, triple) ==
    IF Contains(triple, <<"-","a","p","p","l","e","-">>)
    THEN <<"-","X","l","i","n","k","e","r"," ","-","h","i","d","d","e","n","-","l">> \o lib
    ELSE <<"-","l">> \o lib

-----------------------------------------------------------------------------
(* parse_setup_line *)

\* pathlib: the components of a POSIX path ("" and "." components vanish).
PathParts(w) ==
    SelectSeq(SplitOn(w, "/"), LAMBDA p : p # <<>> /\ p # <<".">>)

\* source_path.with_suffix(".o").name, for a word that ends in ".c": a name
\* that is ".c" alone has no suffix to replace.
ObjName(w) ==
    LET parts == PathParts(w)
        nm == parts[Len(parts)]
    IN IF Len(nm) > 2 THEN SubSeq(nm, 1, Len(nm) - 2) \o <<".","o">>
       ELSE nm \o <<".","o">>

\* lines 140-150: the object path of a word that ends in ".c", as bytes(obj_path)
ObjPath(w, ver) ==
    LET parts == PathParts(w)
        parent == SubSeq(parts, 1, Len(parts) - 1)
    IN IF meets_python_minimum_version(ver, <<"3",".","1","1">>) /\ Contains(w, <<"/">>)
       THEN IF w[1] = "/"
            \* Path("Modules") / <absolute parent> is the absolute parent
            THEN <<"/">> \o JoinWith(parent \o <<ObjName(w)>>, <<"/">>)
            ELSE JoinWith(<<<<"M","o","d","u","l","e","s">>>> \o parent \o <<ObjName(w)>>, <<"/">>)
       ELSE <<"M","o","d","u","l","e","s","/">> \o ObjName(w)

\* lines 121-122
StripComment(l) ==
    IF IndexOf(l, "#") # 0 THEN RStrip(SubSeq(l, 1, IndexOf(l, "#") - 1)) ELSE l

IsSourceWord(w) == EndsWith(w, <<".","c">>)
IsLinkWord(w) == ~IsSourceWord(w) /\ StartsWith(w, <<"-","l">>)
IsHiddenLinkWord(w) ==
    ~IsSourceWord(w) /\ ~StartsWith(w, <<"-","l">>) /\ StartsWith(w, <<"-","h","i","d","d","e","n","-","l">>)
IsFrameworkWord(w) == w = <<"-","f","r","a","m","e","w","o","r","k">>

\* A plausible slip: the -hidden-l form not recognised.
parse_setup_line_no_hidden(l0, ver) ==
    LET l == StripComment(l0)
        words == SplitWs(l)
    IN IF l = <<>> THEN [kind |-> "None"]
       ELSE IF words = <<>> THEN [kind |-> "IndexError"]
       ELSE IF IsFrameworkWord(words[Len(words)]) THEN [kind |-> "IndexError"]
       ELSE [kind |-> "record",
             extension |-> words[1],
             line |-> l,
             posix_obj_paths |->
                 {ObjPath(words[i], ver) :
                     i \in {k \in 1..Len(words) : IsSourceWord(words[k])}},
             links |->
                 {SubSeq(words[i], 3, Len(words[i])) :
                     i \in {k \in 1..Len(words) : IsLinkWord(words[k])}},
             frameworks |->
                 {words[i + 1] :
                     i \in {k \in 1..Len(words) : IsFrameworkWord(words[k])}},
             variant |-> "default"]

\* The result is [kind |-> "None"] for the bare return of line 125, a record
\* of kind "record" for the dict of line 165, and [kind |-> "IndexError"]
\* when words[0] (line 129) or words[i + 1] (line 163) does not exist.
parse_setup_line(l0, ver) ==
    LET l == StripComment(l0)
        words == SplitWs(l)
    IN IF l = <<>> THEN [kind |-> "None"]
       ELSE IF words = <<>> THEN [kind |-> "IndexError"]
       ELSE IF IsFrameworkWord(words[Len(words)]) THEN [kind |-> "IndexError"]
       ELSE [kind |-> "record",
             extension |-> words[1],
             line |-> l,
             posix_obj_paths |->
                 {ObjPath(words[i], ver) :
                     i \in {k \in 1..Len(words) : IsSourceWord(words[k])}},
             links |->
                 {SubSeq(words[i], 3, Len(words[i])) :
                     i \in {k \in 1..Len(words) : IsLinkWord(words[k])}}
                 \cup
                 {SubSeq(words[i], 10, Len(words[i])) :
                     i \in {k \in 1..Len(words) : IsHiddenLinkWord(words[k])}},
             frameworks |->
                 {words[i + 1] :
                     i \in {k \in 1..Len(words) : IsFrameworkWord(words[k])}},
             variant |-> "default"]

-----------------------------------------------------------------------------
(* The regular expressions of derive_setup_local and parse_config_c.  Each *)
(* is matched the way re matches it; where a character class excludes the  *)
(* character that must follow it, the greedy match is the only match.      *)

\* RE_VARIABLE.match(l): ^[a-zA-Z_]+\s*=
ReVariableMatch(l) ==
    LET n == RunEnd(l, 1, Lower \cup Upper \cup {"_"})
    IN n > 1 /\ At(l, RunEnd(l, n, Whitespace)) = "="

\* [a-zA-Z/_-]
SourceChars == Lower \cup Upper \cup {"/", "_", "-"}

\* RE_EXTENSION_MODULE.match(part): ^([a-z_]+)\s.*[a-zA-Z/_-]+\.c\b
\* The end (exclusive) of group 1, or 0 when the part does not match.
ReExtensionModuleMatch(part) ==
    LET n == RunEnd(part, 1, Lower \cup {"_"})
    IN IF /\ n > 1
          /\ At(part, n) \in Whitespace
          /\ \E k \in (n + 1)..Len(part) :
                /\ part[k] \in SourceChars
                /\ At(part, k + 1) = "."
                /\ At(part, k + 2) = "c"
                /\ ~IsWordChar(At(part, k + 3))
                /\ \A m \in (n + 1)..(k - 1) :
                      part[m] # "\n" \/ \A q \in m..k : part[q] \in SourceChars
       THEN n
       ELSE 0

\* lines 266-283 for one line of Setup: [found, name, active]
ScanSetupLine(l0) ==
    LET l == RStrip(l0)
        parts == SplitOn(l, "#")
        hits == {i \in 1..Len(parts) : ReExtensionModuleMatch(parts[i]) # 0}
        first == CHOOSE i \in hits : \A j \in hits : i <= j
    IN IF l = <<>> \/ ReVariableMatch(l) \/ hits = {}
       THEN [found |-> FALSE]
       ELSE [found |-> TRUE,
             name |-> SubSeq(parts[first], 1,
                             ReExtensionModuleMatch(parts[first]) - 1),
             active |-> first = 1]

\* RE_INITTAB_ENTRY matched at position i: \{"([^"]+)", ([^\}]+)\},
\* [matched, name (group 1), init (group 2)]
InittabMatchAt(l, i) ==
    LET q == FirstFrom(l, i + 2, "\"")
        b == FirstFrom(l, q + 3, "}")
    IN IF /\ At(l, i) = "{"
          /\ At(l, i + 1) = "\""
          /\ q > i + 2
          /\ At(l, q + 1) = ","
          /\ At(l, q + 2) = " "
          /\ b > q + 3
          /\ At(l, b + 1) = ","
       THEN [matched |-> TRUE,
             name |-> SubSeq(l, i + 2, q - 1),
             init |-> SubSeq(l, q + 3, b - 1)]
       ELSE [matched |-> FALSE]

\* RE_INITTAB_ENTRY.search(l): the leftmost match
InittabSearch(l) ==
    LET hits == {i \in 1..Len(l) : InittabMatchAt(l, i).matched}
    IN IF hits = {} THEN [matched |-> FALSE]
       ELSE InittabMatchAt(l, CHOOSE i \in hits : \A j \in hits : i <= j)

\* s.splitlines(), for text whose only line boundary is "\n"
SplitLines(s) ==
    LET parts == SplitOn(s, "\n")
    IN IF parts[Len(parts)] = <<>> THEN SubSeq(parts, 1, Len(parts) - 1)
       ELSE parts

RECURSIVE ParseConfigFrom(_, _, _, _)
\* lines 492-505: the loop from line i of the file, with the dict so far
ParseConfigFrom(lines, i, seen, ext) ==
    IF i > Len(lines) THEN ext
    ELSE LET l == lines[i]
             seen2 == seen \/ StartsWith(l, <<"s","t","r","u","c","t"," ","_","i","n","i","t","t","a","b">>)
             m == InittabSearch(l)
         IN IF ~seen2 THEN ParseConfigFrom(lines, i + 1, seen2, ext)
            ELSE IF Contains(l, <<"/","*"," ","S","e","n","t","i","n","e","l"," ","*","/">>) THEN ext
            ELSE IF m.matched
                 THEN ParseConfigFrom(lines, i + 1, seen2,
                          [k \in DOMAIN ext \cup {m.name} |->
                              IF k = m.name THEN m.init ELSE ext[k]])
            ELSE ParseConfigFrom(lines, i + 1, seen2, ext)

\* parse_config_c: name -> initializer
parse_config_c(s) == ParseConfigFrom(SplitLines(s), 1, FALSE, <<>>)

\* RE_DEFINE matched at position i: -D[^=]+=[^\s]+
\* The end (inclusive) of the match, or 0.
DefineMatchEnd(s, i) ==
    LET e == FirstFrom(s, i + 2, "=")
    IN IF /\ At(s, i) = "-"
          /\ At(s, i + 1) = "D"
          /\ e > i + 2
          /\ e < Len(s)
          /\ s[e + 1] \notin Whitespace
       THEN RunEndNot(s, e + 1, Whitespace) - 1
       ELSE 0

\* The start of the leftmost match of RE_DEFINE at or after i, or 0.
DefineNext(s, i) ==
    LET hits == {j \in i..Len(s) : DefineMatchEnd(s, j) # 0}
    IN IF hits = {} THEN 0 ELSE CHOOSE j \in hits : \A k \in hits : j <= k

RECURSIVE DefineMatchesFrom(_, _)
DefineMatchesFrom(s, i) ==
    LET j == DefineNext(s, i)
    IN IF j = 0 THEN <<>>
       ELSE <<SubSeq(s, j, DefineMatchEnd(s, j))>>
            \o DefineMatchesFrom(s, DefineMatchEnd(s, j) + 1)

\* [m.group(0) for m in RE_DEFINE.finditer(s)]
DefineMatches(s) == DefineMatchesFrom(s, 1)

RECURSIVE DefineSubFrom(_, _)
DefineSubFrom(s, i) ==
    LET j == DefineNext(s, i)
    IN IF j = 0 THEN SubSeq(s, i, Len(s))
       ELSE SubSeq(s, i, j - 1) \o DefineSubFrom(s, DefineMatchEnd(s, j) + 1)

\* RE_DEFINE.sub(b"", s)
DefineSub(s) == DefineSubFrom(s, 1)

-----------------------------------------------------------------------------
(* derive_setup_local: the metadata pass (lines 216-248) *)

\* lines 224-231
VersionIgnored(info, ver) ==
    ~(/\ meets_python_minimum_version(
             ver, Get(info, "minimum-python-version", <<"1",".","0">>))
      /\ meets_python_maximum_version(
             ver, Get(info, "maximum-python-version", <<"1","0","0",".","0">>)))

\* lines 236-237
TargetDisabled(info, triple) ==
    /\ Get(info, "disabled-targets", <<>>) # <<>>
    /\ AnyTargetMatch(info["disabled-targets"], triple)

-----------------------------------------------------------------------------
(* derive_setup_local: the reconciliation checks (lines 296-327) *)

None == [kind |-> "None"]

Exception(msg, names) ==
    [kind |-> "Exception", msg |-> msg, names |-> Sorted(names)]

\* A plausible slip: the check of line 310 left out.
ReconciliationErrorNoExtra(declared, dist, actual, wanted, config, cwanted) ==
    IF dist \ declared # {}
    THEN Exception("missing extension modules from YAML", dist \ declared)
    ELSE IF actual \ wanted # {}
    THEN Exception(
             "Setup enabled extensions missing YAML setup-enabled annotation",
             actual \ wanted)
    ELSE IF config \ cwanted # {}
    THEN Exception(
             "config.c.in extensions missing YAML config-c-only annotation",
             config \ cwanted)
    ELSE IF cwanted \ config # {}
    THEN Exception(
             "YAML config-c-only extensions not present in config.c.in",
             cwanted \ config)
    ELSE None

\* A plausible change: every check evaluated, the names reported together.
ReconciliationErrorAggregated(declared, dist, actual, wanted, config, cwanted) ==
    LET all == (dist \ declared) \cup (actual \ wanted) \cup (wanted \ actual)
               \cup (config \ cwanted) \cup (cwanted \ config)
    IN IF all # {} THEN Exception("extension modules out of sync", all)
       ELSE None

\* The exception the first failing check raises, or None: each check raises
\* before the next one is evaluated.
ReconciliationError(declared, dist, actual, wanted, config, cwanted) ==
    IF dist \ declared # {}
    THEN Exception("missing extension modules from YAML", dist \ declared)
    ELSE IF actual \ wanted # {}
    THEN Exception(
             "Setup enabled extensions missing YAML setup-enabled annotation",
             actual \ wanted)
    ELSE IF wanted \ actual # {}
    THEN Exception("YAML setup-enabled extensions not present in Setup",
                   wanted \ actual)
    ELSE IF config \ cwanted # {}
    THEN Exception(
             "config.c.in extensions missing YAML config-c-only annotation",
             config \ cwanted)
    ELSE IF cwanted \ config # {}
    THEN Exception(
             "YAML config-c-only extensions not present in config.c.in",
             cwanted \ config)
    ELSE None

-----------------------------------------------------------------------------
(* derive_setup_local: the line of one module (lines 358-426) *)

\* A plausible slip: a module disabled for the target still gets its line.
SkippedUnlessDisabled(n, info, dis, ign) ==
    n \in ign \/ "sources" \notin DOMAIN info

\* lines 348-354: the modules the loop passes over
Skipped(n, info, dis, ign) ==
    n \in dis \/ n \in ign \/ "sources" \notin DOMAIN info

\* lines 364-367 and 383-386: an absent or empty list matches every target
EntryTargetMatch(entry, triple) ==
    IF Get(entry, "targets", <<>>) # <<>>
    THEN AnyTargetMatch(entry["targets"], triple)
    ELSE TRUE

\* lines 364-376
SourceEntryApplies(entry, ver, triple) ==
    /\ EntryTargetMatch(entry, triple)
    /\ meets_python_minimum_version(
           ver, Get(entry, "minimum-python-version", <<"1",".","0">>))
    /\ meets_python_maximum_version(
           ver, Get(entry, "maximum-python-version", <<"1","0","0",".","0">>))

\* lines 383-395: line 392 reads "minimum-python-version" for the maximum
DefineEntryApplies(entry, ver, triple) ==
    /\ EntryTargetMatch(entry, triple)
    /\ meets_python_minimum_version(
           ver, Get(entry, "minimum-python-version", <<"1",".","0">>))
    /\ meets_python_maximum_version(
           ver, Get(entry, "minimum-python-version", <<"1","0","0",".","0">>))

\* lines 402, 416, 424: entry["targets"] of an entry that has none
MissingTargetsKey(info) ==
    \E key \in {"includes-conditional", "links-conditional", "linker-args"} :
        \E i \in 1..Len(Get(info, key, <<>>)) :
            "targets" \notin DOMAIN info[key][i]

\* The text each element of a list appends: " " + prefix + element
Appended(prefix, items) ==
    JoinWith([i \in 1..Len(items) |-> <<" ">> \o prefix \o items[i]], <<>>)

\* The entries of the list under key that match the target (lines 402, 416, 424)
TargetEntries(info, key, triple) ==
    SelectSeq(Get(info, key, <<>>),
              LAMBDA e : AnyTargetMatch(e["targets"], triple))

\* The sources lines 360-377 append, in order
EmittedSources(info, ver, triple) ==
    LET cond == SelectSeq(Get(info, "sources-conditional", <<>>),
                          LAMBDA e : SourceEntryApplies(e, ver, triple))
    IN Get(info, "sources", <<>>) \o [i \in 1..Len(cond) |-> cond[i]["source"]]

\* The defines lines 379-396 append, in order
EmittedDefines(info, ver, triple) ==
    LET cond == SelectSeq(Get(info, "defines-conditional", <<>>),
                          LAMBDA e : DefineEntryApplies(e, ver, triple))
    IN Get(info, "defines", <<>>) \o [i \in 1..Len(cond) |-> cond[i]["define"]]

\* The libraries lines 412-417 append, in order
EmittedLinks(info, triple) ==
    LET cond == TargetEntries(info, "links-conditional", triple)
    IN Get(info, "links", <<>>) \o [i \in 1..Len(cond) |-> cond[i]["name"]]

\* lines 358-428, for a module whose conditional entries all have the keys
\* the loops read
SetupLine(n, info, ver, triple) ==
    LET apple == Contains(triple, <<"-","a","p","p","l","e","-">>)
        incs == TargetEntries(info, "includes-conditional", triple)
        links == EmittedLinks(info, triple)
        largs == TargetEntries(info, "linker-args", triple)
    IN n
       \o Appended(<<>>, EmittedSources(info, ver, triple))
       \o Appended(<<"-","D">>, EmittedDefines(info, ver, triple))
       \o Appended(<<"-","I">>, Get(info, "includes", <<>>))
       \o Appended(<<"-","I">>, [i \in 1..Len(incs) |-> incs[i]["path"]])
       \o (IF apple THEN <<>>
           ELSE Appended(<<"-","I","/","t","o","o","l","s","/","d","e","p","s","/">>, Get(info, "includes-deps", <<>>)))
       \o Appended(<<>>, [i \in 1..Len(links) |->
                              link_for_target(links[i], triple)])
       \o (IF apple
           THEN Appended(<<"-","f","r","a","m","e","w","o","r","k"," ">>, Get(info, "frameworks", <<>>))
           ELSE <<>>)
       \o JoinWith([i \in 1..Len(largs) |->
                       Appended(<<"-","X","l","i","n","k","e","r"," ">>, largs[i]["args"])], <<>>)

\* lines 442-444: extra_cflags after the defines of one parsed line are hoisted
Hoisted(cflags, p) ==
    LET found == DefineMatches(p.line)
        objs == IF found = <<>> THEN {} ELSE p.posix_obj_paths
    IN [o \in DOMAIN cflags \cup objs |->
           (IF o \in DOMAIN cflags THEN cflags[o] ELSE <<>>)
           \o (IF o \in objs THEN found ELSE <<>>)]

\* lines 455-472: the returned dict
Returned(lines, cflags, dis, slines, cext) ==
    LET targets == Sorted(DOMAIN cflags)
        make_lines ==
            [i \in 1..Len(targets) |->
                targets[i] \o <<":"," ","P","Y","_","S","T","D","M","O","D","U","L","E","_","C","F","L","A","G","S"," ","+","="," ">>
                \o JoinWith(cflags[targets[i]], <<" ">>)]
    IN [kind |-> "dict",
        config_c_extensions |-> cext,
        setup_dist |-> JoinWith(slines, <<"\n">>),
        setup_local |->
            JoinWith(lines \o <<<<"\n","*","d","i","s","a","b","l","e","d","*","\n">>>> \o Sorted(dis) \o <<<<>>>>,
                     <<"\n">>),
        make_data |-> JoinWith(make_lines, <<"\n">>)]

-----------------------------------------------------------------------------
(* The inputs the model draws the arguments from. *)

LinuxTriple == <<"x","8","6","_","6","4","-","u","n","k","n","o","w","n","-","l","i","n","u","x","-","g","n","u">>
AppleTriple == <<"a","a","r","c","h","6","4","-","a","p","p","l","e","-","d","a","r","w","i","n">>
Triples == {LinuxTriple, AppleTriple}

\* 3.9 .. 3.MaxMinor
Versions == {<<"3",".">> \o Dec(m) : m \in 9..MaxMinor}

\* e with key -> v added, unless v is the empty text (the key is absent)
With(e, key, v) == IF v = <<>> THEN e ELSE e @@ (key :> v)

\* e with a "targets" list: absent, empty, or of one pattern
WithTargets(e, opt) ==
    CASE opt = "absent" -> e
      [] opt = "empty" -> e @@ ("targets" :> <<>>)
      [] opt = "apple" -> e @@ ("targets" :> <<<<".","*","-","a","p","p","l","e","-","d","a","r","w","i","n">>>>)
      [] opt = "linux" -> e @@ ("targets" :> <<<<"x","8","6","_","6","4","-",".","*">>>>)

TargetOpts == {"absent", "empty", "apple", "linux"}
BoundOpts == {<<>>, <<"3",".","1","0">>, <<"3",".","1","1">>}

\* One entry of sources-conditional / defines-conditional for every choice of
\* targets, minimum-python-version and maximum-python-version.
CondEntries(key, v) ==
    {With(With(WithTargets(key :> v, t), "minimum-python-version", mn),
          "maximum-python-version", mx) :
        t \in TargetOpts, mn \in BoundOpts, mx \in BoundOpts}

Math == <<"m","a","t","h">>
Zlib == <<"z","l","i","b">>
Ctypes == <<"_","c","t","y","p","e","s">>
Pwd == <<"p","w","d">>

\* The metadata of math and of zlib in the runs that exercise reconciliation.
MathInfos ==
    {"sources" :> <<<<"m","a","t","h","m","o","d","u","l","e",".","c">>>>,
     "sources" :> <<<<"m","a","t","h","m","o","d","u","l","e",".","c">>>> @@ "setup-enabled" :> TRUE,
     "sources" :> <<<<"m","a","t","h","m","o","d","u","l","e",".","c">>>> @@ "setup-enabled" :> TRUE
         @@ "maximum-python-version" :> <<"3",".","1","0">>,
     "sources" :> <<<<"m","a","t","h","m","o","d","u","l","e",".","c">>>> @@ "setup-enabled" :> TRUE
         @@ "disabled-targets" :> <<<<".","*","-","a","p","p","l","e","-","d","a","r","w","i","n">>>>,
     "sources" :> <<>> @@ "setup-enabled" :> FALSE,
     "minimum-python-version" :> <<"3",".","1","1">> @@ "links" :> <<<<"m">>>>}

ZlibInfos ==
    {"sources" :> <<<<"z","l","i","b","m","o","d","u","l","e",".","c">>>> @@ "links" :> <<<<"z">>>>,
     "config-c-only" :> TRUE,
     "config-c-only" :> TRUE @@ "minimum-python-version" :> <<"3",".","1","1">>,
     "sources" :> <<<<"z","l","i","b","m","o","d","u","l","e",".","c">>>> @@ "setup-enabled" :> TRUE,
     "sources" :> <<<<"z","l","i","b","m","o","d","u","l","e",".","c">>>> @@ "disabled-targets" :> <<<<"a","a","r","c","h","6","4">>>>}

\* name -> info for every choice of an info, or of no entry, for each name
Metadata(n1, infos1, n2, infos2) ==
    {<<>>}
    \cup {n1 :> i1 : i1 \in infos1}
    \cup {n2 :> i2 : i2 \in infos2}
    \cup {n1 :> i1 @@ n2 :> i2 : i1 \in infos1, i2 \in infos2}

SetupHeader ==
    <<<<"#"," ","-","*","-"," ","m","a","k","e","f","i","l","e"," ","-","*","-","\n">>, <<"o","b","j","s"," ","="," ","m","a","i","n",".","c","\n">>, <<"\n">>>>

\* The lines of Setup for one module: none, an active one, a commented one.
SetupEntries(n) ==
    {<<>>,
     <<n \o <<" ">> \o n \o <<"m","o","d","u","l","e",".","c"," ","#"," ","-","l","m","\n">>>>,
     <<<<"#">> \o n \o <<" ">> \o n \o <<"m","o","d","u","l","e",".","c","\n">>>>}

SetupFiles ==
    {SetupHeader \o m \o p : m \in SetupEntries(Math), p \in SetupEntries(Pwd)}

ConfigEntry(n) == <<" "," "," "," ","{","\"">> \o n \o <<"\"",","," ","P","y","I","n","i","t","_">> \o n \o <<"}",",","\n">>

ConfigFile(names) ==
    <<"e","x","t","e","r","n"," ","P","y","O","b","j","e","c","t","*"," ","P","y","I","n","i","t","_","p","o","s","i","x","(","v","o","i","d",")",";","\n">>
    \o <<"s","t","r","u","c","t"," ","_","i","n","i","t","t","a","b"," ","_","P","y","I","m","p","o","r","t","_","I","n","i","t","t","a","b","[","]"," ","="," ","{","\n">>
    \o JoinWith([i \in 1..Len(names) |-> ConfigEntry(names[i])], <<>>)
    \o <<" "," "," "," ","/","*"," ","S","e","n","t","i","n","e","l"," ","*","/","\n">>
    \o <<" "," "," "," ","{","0",","," ","0","}","\n">>
    \o <<"}",";","\n">>
    \o <<"s","t","a","t","i","c"," ","s","t","r","u","c","t"," ","_","i","n","i","t","t","a","b"," ","e","x","t","r","a","[","]"," ","="," ","{"," ","{","\"","l","a","t","e","\"",","," ","0","}",","," ","}",";","\n">>

ConfigFiles == {ConfigFile(ns) : ns \in {<<>>, <<Zlib>>, <<Pwd>>, <<Pwd, Zlib>>}}

\* The metadata of _ctypes in the runs that exercise synthesis.
CtypesBase == "sources" :> <<<<"_","c","t","y","p","e","s","/","_","c","t","y","p","e","s",".","c">>>>

SourceChoices ==
    {<<>>, <<<<"_","c","t","y","p","e","s",".","c">>>>, <<<<"_","c","t","y","p","e","s","/","_","c","t","y","p","e","s",".","c">>>>,
     <<<<"_","c","t","y","p","e","s","/","c","a","l","l","p","r","o","c",".","c">>, <<"_","c","t","y","p","e","s","/","_","c","t","y","p","e","s",".","c">>>>,
     <<<<"_","c","t","y","p","e","s","/","d","a","r","w","i","n","/","d","l","f","c","n","_","s","i","m","p","l","e",".","m">>>>}

DefineChoices ==
    {<<>>, <<<<"F","F","I">>>>, <<<<"B","A","R","=","1">>>>, <<<<"F","O","O">>, <<"B","A","R","=","1">>>>,
     <<<<"B","A","R","=","1">>, <<"F","O","O">>>>, <<<<"A","=","1">>, <<"B","=","2">>>>}

RichClauses ==
    "includes" :> <<<<"i","n","c">>>>
    @@ "includes-deps" :> <<<<"i","n","c","l","u","d","e","/","f","f","i">>>>
    @@ "links" :> <<<<"f","f","i">>>>
    @@ "links-conditional" :>
           <<WithTargets("name" :> <<"d","l">>, "linux"),
             WithTargets("name" :> <<"i","c","o","n","v">>, "apple")>>
    @@ "frameworks" :> <<<<"C","o","r","e","F","o","u","n","d","a","t","i","o","n">>>>
    @@ "linker-args" :>
           <<WithTargets("args" :> <<<<"-","z">>, <<"n","o","w">>>>, "linux")>>

CtypesInfos ==
    {CtypesBase @@ "sources-conditional" :> <<e>> :
        e \in CondEntries("source", <<"_","c","t","y","p","e","s","/","m","a","l","l","o","c","_","c","l","o","s","u","r","e",".","c">>)}
    \cup
    {CtypesBase @@ "defines-conditional" :> <<e>> :
        e \in CondEntries("define", <<"U","S","I","N","G","_","M","A","L","L","O","C","_","C","L","O","S","U","R","E">>)}
    \cup
    {CtypesBase @@ key :> <<WithTargets(e, t)>> :
        t \in TargetOpts,
        <<key, e>> \in {<<"includes-conditional", "path" :> <<"i","n","c">>>>,
                       <<"links-conditional", "name" :> <<"d","l">>>>,
                       <<"linker-args", "args" :> <<<<"-","z">>, <<"n","o","w">>>>>>}}
    \cup
    {"sources" :> srcs @@ With(<<>>, "defines", defs) : 
        srcs \in SourceChoices, defs \in DefineChoices}
    \cup
    {"sources" :> srcs @@ With(RichClauses, "defines", defs) :
        srcs \in SourceChoices, defs \in DefineChoices}
    \cup
    {CtypesBase @@ With(<<>>, "defines", defs)
        @@ "linker-args" :>
               <<WithTargets("args" :> <<<<"-","-","s","o","r","t","=","1">>>>, "linux")>> :
        defs \in {<<>>, <<<<"F","F","I">>>>}}

\* A second module of the synthesis runs: none, or one with a define to hoist.
CompanionInfos ==
    {"sources" :> <<<<"m","a","t","h","m","o","d","u","l","e",".","c">>, <<"_","m","a","t","h",".","c">>>>
        @@ "defines" :> <<<<"P","I","=","3">>>> @@ "links" :> <<<<"m">>>>}

-----------------------------------------------------------------------------
(* derive_setup_local as a state machine *)

Idle ==
    /\ disabled = {} /\ ignored = {}
    /\ setup_enabled_wanted = {} /\ config_c_only_wanted = {}
    /\ dist_modules = {} /\ setup_enabled_actual = {}
    /\ config_c_extensions = <<>>
    /\ todo = <<>> /\ name = <<>> /\ line = <<>>
    /\ parsed = None
    /\ dest_lines = <<>> /\ extra_cflags = <<>>
    /\ result = None /\ error = None

\* Runs whose Setup and config.c.in agree or disagree with the metadata.
InitReconcile ==
    /\ python_version \in Versions
    /\ target_triple \in Triples
    /\ extension_modules \in Metadata(Math, MathInfos, Zlib, ZlibInfos)
    /\ setup_lines \in SetupFiles
    /\ config_c_in \in ConfigFiles
    /\ pc = "collect"
    /\ Idle

\* Runs whose distribution declares no module, over the clauses of a module.
InitSynthesize ==
    /\ python_version \in Versions
    /\ target_triple \in Triples
    /\ extension_modules \in
           {Ctypes :> i : i \in CtypesInfos}
           \cup {Ctypes :> i @@ Math :> c :
                    i \in CtypesInfos, c \in CompanionInfos}
    /\ setup_lines = SetupHeader
    /\ config_c_in = ConfigFile(<<>>)
    /\ pc = "collect"
    /\ Idle

Init == InitReconcile \/ InitSynthesize

\* lines 216-248
CollectMetadata ==
    /\ pc = "collect"
    /\ LET ign == {n \in DOMAIN extension_modules :
                      VersionIgnored(extension_modules[n], python_version)}
           kept == DOMAIN extension_modules \ ign
       IN /\ ignored' = ign
          /\ disabled' = {n \in kept :
                            TargetDisabled(extension_modules[n], target_triple)}
          /\ setup_enabled_wanted' =
                 {n \in kept : Get(extension_modules[n], "setup-enabled", FALSE)}
          /\ config_c_only_wanted' =
                 {n \in kept : Get(extension_modules[n], "config-c-only", FALSE)}
    /\ pc' = "parse"
    /\ UNCHANGED <<python_version, target_triple, extension_modules,
                   setup_lines, config_c_in, dist_modules,
                   setup_enabled_actual, config_c_extensions, todo, name,
                   line, parsed, dest_lines, extra_cflags, result, error>>

\* lines 252-288
ParseDistribution ==
    /\ pc = "parse"
    /\ LET scans == [i \in 1..Len(setup_lines) |-> ScanSetupLine(setup_lines[i])]
           hits == {i \in 1..Len(scans) : scans[i].found}
           cext == parse_config_c(config_c_in)
       IN /\ setup_enabled_actual' =
                 {scans[i].name : i \in {k \in hits : scans[k].active}}
          /\ config_c_extensions' = cext
          /\ dist_modules' = {scans[i].name : i \in hits} \cup DOMAIN cext
    /\ pc' = "validate"
    /\ UNCHANGED <<python_version, target_triple, extension_modules,
                   setup_lines, config_c_in, disabled, ignored,
                   setup_enabled_wanted, config_c_only_wanted, todo, name,
                   line, parsed, dest_lines, extra_cflags, result, error>>

\* lines 296-347: the checks, then the start of the loop over the modules
Validate ==
    /\ pc = "validate"
    /\ LET e == ReconciliationError(DOMAIN extension_modules, dist_modules,
                                    setup_enabled_actual, setup_enabled_wanted,
                                    DOMAIN config_c_extensions,
                                    config_c_only_wanted)
       IN IF e # None
          THEN /\ error' = e
               /\ pc' = "raised"
               /\ UNCHANGED <<dest_lines, todo>>
          ELSE /\ dest_lines' = <<<<"*","s","t","a","t","i","c","*">>>>
               /\ todo' = Sorted(DOMAIN extension_modules)
               /\ pc' = "derive"
               /\ UNCHANGED error
    /\ UNCHANGED <<python_version, target_triple, extension_modules,
                   setup_lines, config_c_in, disabled, ignored,
                   setup_enabled_wanted, config_c_only_wanted, dist_modules,
                   setup_enabled_actual, config_c_extensions, name, line,
                   parsed, extra_cflags, result>>

\* lines 347-453: one iteration of the loop over the modules
DeriveLine ==
    /\ pc = "derive"
    /\ todo # <<>>
    /\ LET n == Head(todo)
           info == extension_modules[n]
           l == SetupLine(n, info, python_version, target_triple)
           p == parse_setup_line(l, python_version)
           out == DefineSub(l)
       IN /\ todo' = Tail(todo)
          /\ name' = n
          /\ IF Skipped(n, info, disabled, ignored)
             THEN /\ line' = <<>>
                  /\ parsed' = None
                  /\ UNCHANGED <<dest_lines, extra_cflags, error, pc>>
             ELSE IF MissingTargetsKey(info)
             THEN /\ error' = [kind |-> "KeyError", key |-> "targets"]
                  /\ pc' = "raised"
                  /\ line' = <<>>
                  /\ parsed' = None
                  /\ UNCHANGED <<dest_lines, extra_cflags>>
             ELSE IF p.kind = "IndexError"
             THEN /\ error' = [kind |-> "IndexError"]
                  /\ line' = l
                  /\ parsed' = p
                  /\ pc' = "raised"
                  /\ UNCHANGED <<dest_lines, extra_cflags>>
             ELSE IF p.kind = "None"
             THEN /\ error' = [kind |-> "Exception",
                               msg |-> "we should always parse a setup line we generated",
                               names |-> <<>>]
                  /\ line' = l
                  /\ parsed' = p
                  /\ pc' = "raised"
                  /\ UNCHANGED <<dest_lines, extra_cflags>>
             ELSE /\ line' = l
                  /\ parsed' = p
                  /\ extra_cflags' = Hoisted(extra_cflags, p)
                  /\ IF Contains(out, <<"=">>)
                     THEN /\ error' = [kind |-> "Exception",
                                       msg |-> "= appears in EXTRA_MODULES line; will confuse makesetup",
                                       names |-> <<out>>]
                          /\ pc' = "raised"
                          /\ UNCHANGED dest_lines
                     ELSE /\ dest_lines' = Append(dest_lines, out)
                          /\ UNCHANGED <<error, pc>>
    /\ UNCHANGED <<python_version, target_triple, extension_modules,
                   setup_lines, config_c_in, disabled, ignored,
                   setup_enabled_wanted, config_c_only_wanted, dist_modules,
                   setup_enabled_actual, config_c_extensions, result>>

\* lines 455-472
Return ==
    /\ pc = "derive"
    /\ todo = <<>>
    /\ result' = Returned(dest_lines, extra_cflags, disabled, setup_lines,
                          config_c_extensions)
    /\ pc' = "returned"
    /\ UNCHANGED <<python_version, target_triple, extension_modules,
                   setup_lines, config_c_in, disabled, ignored,
                   setup_enabled_wanted, config_c_only_wanted, dist_modules,
                   setup_enabled_actual, config_c_extensions, todo, name,
                   line, parsed, dest_lines, extra_cflags, error>>

Next == CollectMetadata \/ ParseDistribution \/ Validate \/ DeriveLine \/ Return

Spec == Init /\ [][Next]_vars

-----------------------------------------------------------------------------
(* parse_setup_line called alone, on the lines of a Setup file *)

WordPool ==
    {<<"z","l","i","b">>, <<"z","l","i","b","m","o","d","u","l","e",".","c">>, <<"f","o","o","/","b","a","r",".","c">>, <<"_","c","t","y","p","e","s","/","d","a","r","w","i","n","/","d","l","f","c","n",".","c">>,
     <<"-","l","z">>, <<"-","h","i","d","d","e","n","-","l","z">>, <<"-","f","r","a","m","e","w","o","r","k">>, <<"C","o","r","e","F","o","u","n","d","a","t","i","o","n">>,
     <<"-","D","X","=","1">>}

\* The sequences of 1 .. n words of the pool
RECURSIVE WordSeqs(_)
WordSeqs(n) ==
    IF n = 0 THEN {}
    ELSE {<<w>> : w \in WordPool}
         \cup {Append(ws, w) : ws \in WordSeqs(n - 1), w \in WordPool}

\* Blank and comment-only lines, and the lines of at most MaxWords words:
\* bare, followed by a comment, commented out, and padded with whitespace.
ParseLines ==
    {<<>>, <<" ">>, <<" ","\t">>, <<"#">>, <<" "," ","#"," ","n","o","t","e">>, <<"\n">>}
    \cup UNION {{JoinWith(ws, <<" ">>),
                 JoinWith(ws, <<" ">>) \o <<" ","#"," ","n","o","t","e">>,
                 <<"#">> \o JoinWith(ws, <<" ">>),
                 <<"\t">> \o JoinWith(ws, <<" "," ">>) \o <<" ","\n">>} :
                    ws \in WordSeqs(MaxWords)}

ParseVersions == Versions \cup {<<"3",".","1","1",".","4">>, <<"2",".","1","2">>, <<"4",".","0">>}

InitParse ==
    /\ python_version \in ParseVersions
    /\ line \in ParseLines
    /\ pc = "called"
    /\ target_triple = <<>> /\ extension_modules = <<>>
    /\ setup_lines = <<>> /\ config_c_in = <<>>
    /\ disabled = {} /\ ignored = {}
    /\ setup_enabled_wanted = {} /\ config_c_only_wanted = {}
    /\ dist_modules = {} /\ setup_enabled_actual = {}
    /\ config_c_extensions = <<>>
    /\ todo = <<>> /\ name = <<>>
    /\ parsed = None
    /\ dest_lines = <<>> /\ extra_cflags = <<>>
    /\ result = None /\ error = None

\* lines 119-172
ParseSetupLine ==
    /\ pc = "called"
    /\ parsed' = parse_setup_line(line, python_version)
    /\ pc' = IF parsed'.kind = "IndexError" THEN "failed" ELSE "parsed"
    /\ error' = IF parsed'.kind = "IndexError" THEN [kind |-> "IndexError"]
                ELSE error
    /\ UNCHANGED <<python_version, target_triple, extension_modules,
                   setup_lines, config_c_in, disabled, ignored,
                   setup_enabled_wanted, config_c_only_wanted, dist_modules,
                   setup_enabled_actual, config_c_extensions, todo, name,
                   line, dest_lines, extra_cflags, result>>

NextParse == ParseSetupLine

SpecParse == InitParse /\ [][NextParse]_vars

-----------------------------------------------------------------------------
(* What the claims speak of, stated on the arguments and the results. *)

\* The words of a line, as a set
Words(l) == {SplitWs(l)[i] : i \in 1..Len(SplitWs(l))}

\* The text after the last "/" of w
Basename(w) ==
    LET sl == {i \in 1..Len(w) : w[i] = "/"}
    IN IF sl = {} THEN w
       ELSE SubSeq(w, (CHOOSE i \in sl : \A j \in sl : j <= i) + 1, Len(w))

\* The active version is at or above 3.11, on (major, minor)
AtLeast311(v) ==
    VersionPair(v)[1] > 3 \/ (VersionPair(v)[1] = 3 /\ VersionPair(v)[2] >= 11)

\* The object path the claims expect of a source token that ends in ".c"
ExpectedObject(w, v) ==
    <<"M","o","d","u","l","e","s","/">>
    \o SubSeq(IF AtLeast311(v) THEN w ELSE Basename(w), 1,
              Len(IF AtLeast311(v) THEN w ELSE Basename(w)) - 2)
    \o <<".","o">>

\* The active version lies in [minimum-python-version, maximum-python-version]
\* of rec, a missing bound being no bound
InVersionRange(rec, v) ==
    /\ "minimum-python-version" \in DOMAIN rec =>
           PairLeq(VersionPair(rec["minimum-python-version"]), VersionPair(v))
    /\ "maximum-python-version" \in DOMAIN rec =>
           PairLeq(VersionPair(v), VersionPair(rec["maximum-python-version"]))

\* The targets list of rec is absent or empty
NoTargets(rec) == "targets" \notin DOMAIN rec \/ rec["targets"] = <<>>

\* The targets list of rec is absent or empty, or one of its patterns matches
MatchesTarget(rec, triple) ==
    NoTargets(rec) \/ \E i \in 1..Len(rec["targets"]) : ReMatch(rec["targets"][i], triple)

Declared == DOMAIN extension_modules

IsIgnored(n) == ~InVersionRange(extension_modules[n], python_version)

IsDisabled(n) ==
    /\ ~IsIgnored(n)
    /\ "disabled-targets" \in DOMAIN extension_modules[n]
    /\ \E i \in 1..Len(extension_modules[n]["disabled-targets"]) :
           ReMatch(extension_modules[n]["disabled-targets"][i], target_triple)

\* The elements of a list of the metadata, as a set
Elements(info, key) == {Get(info, key, <<>>)[i] : i \in 1..Len(Get(info, key, <<>>))}

\* The last iteration of the loop over the modules synthesized a line
LineSynthesized == pc \in {"derive", "raised", "returned"} /\ line # <<>>

-----------------------------------------------------------------------------
(* parse_setup_line *)

\* C6: a .c source token maps to Modules/<basename>.o below 3.11 and to
\* Modules/<token with .o> from 3.11 on, on (major, minor) compared as numbers;
\* a token without "/" maps to Modules/<basename>.o under every version.
C6_ObjectPathFollowsVersion ==
    (pc = "parsed" /\ parsed.kind = "record") =>
        parsed.posix_obj_paths =
            {ExpectedObject(w, python_version) :
                w \in {x \in Words(StripComment(line)) : EndsWith(x, <<".","c">>)}}

C6_Witness ==
    /\ pc = "parsed"
    /\ python_version = <<"3",".","1","1",".","4">>
    /\ parsed.kind = "record"
    /\ parsed.posix_obj_paths = {<<"M","o","d","u","l","e","s","/","f","o","o","/","b","a","r",".","o">>, <<"M","o","d","u","l","e","s","/","z","l","i","b","m","o","d","u","l","e",".","o">>}

\* The text of l before its first "#" is empty or only whitespace
BlankOrComment(l) ==
    \A i \in 1..(IF IndexOf(l, "#") = 0 THEN Len(l) ELSE IndexOf(l, "#") - 1) :
        IsSpace(l[i])

\* C7: parse_setup_line returns nothing for every blank or comment-only line
\* (empty, only whitespace, or nothing but whitespace before the first "#"),
\* and for every other line a record named by the first word of the line.
C7_NothingForBlankRecordOtherwise ==
    pc \in {"parsed", "failed"} =>
        IF BlankOrComment(line) THEN parsed.kind = "None"
        ELSE /\ parsed.kind = "record"
             /\ parsed.extension = SplitWs(line)[1]

-----------------------------------------------------------------------------
(* derive_setup_local: reconciliation *)

SetupEnabledDeclared ==
    {n \in Declared : ~IsIgnored(n) /\ Get(extension_modules[n], "setup-enabled", FALSE)}

ConfigCOnlyDeclared ==
    {n \in Declared : ~IsIgnored(n) /\ Get(extension_modules[n], "config-c-only", FALSE)}

Reconciled ==
    /\ dist_modules \subseteq Declared
    /\ setup_enabled_actual = SetupEnabledDeclared
    /\ DOMAIN config_c_extensions = ConfigCOnlyDeclared

AfterValidation == pc \in {"derive", "raised", "returned"}

\* C1: the call gets past the checks, and returns, only when every module of
\* Setup and config.c.in is declared, the active names of Setup are the
\* non-ignored setup-enabled modules and the names of config.c.in are the
\* non-ignored config-c-only modules; otherwise it raises and produces nothing.
C1_ReturnsOnlyWhenReconciled ==
    AfterValidation =>
        \/ Reconciled
        \/ pc = "raised" /\ result = None /\ dest_lines = <<>>

C1_Witness ==
    /\ pc = "returned"
    /\ setup_enabled_actual = {Math}
    /\ DOMAIN config_c_extensions = {Zlib}

\* The offending names of the checks, in the order of the code
Violations ==
    <<dist_modules \ Declared,
      setup_enabled_actual \ SetupEnabledDeclared,
      SetupEnabledDeclared \ setup_enabled_actual,
      DOMAIN config_c_extensions \ ConfigCOnlyDeclared,
      ConfigCOnlyDeclared \ DOMAIN config_c_extensions>>

Violated == {i \in 1..5 : Violations[i] # {}}

FirstViolated == CHOOSE i \in Violated : \A j \in Violated : i <= j

\* the run was aborted by a reconciliation check (no line was synthesized yet)
ReconciliationFailed ==
    pc = "raised" /\ error.kind = "Exception" /\ dest_lines = <<>>

-----------------------------------------------------------------------------
(* derive_setup_local: the Line Synthesizer *)

\* The module of the last iteration was due a line: declared with sources,
\* neither ignored nor disabled
LineDue ==
    /\ pc \in {"derive", "raised", "returned"}
    /\ name # <<>>
    /\ ~IsIgnored(name)
    /\ ~IsDisabled(name)
    /\ "sources" \in DOMAIN extension_modules[name]

\* C3: a sources-conditional entry and a defines-conditional entry are each
\* appended exactly when the targets list is absent or empty or a pattern
\* matches the triple, and the active version lies within the entry's
\* [minimum-python-version, maximum-python-version].
C3_ConditionalEntriesFollowRange ==
    LineSynthesized =>
        /\ \A e \in Elements(extension_modules[name], "sources-conditional") :
               e["source"] \in Words(line)
               <=> (MatchesTarget(e, target_triple)
                    /\ InVersionRange(e, python_version))
        /\ \A e \in Elements(extension_modules[name], "defines-conditional") :
               <<"-","D">> \o e["define"] \in Words(line)
               <=> (MatchesTarget(e, target_triple)
                    /\ InVersionRange(e, python_version))

\* The words an entry of the list under key appends when it is emitted
EntryWords(key, e) ==
    CASE key = "sources-conditional" -> {e["source"]}
      [] key = "defines-conditional" -> {<<"-","D">> \o e["define"]}
      [] key = "includes-conditional" -> {<<"-","I">> \o e["path"]}
      [] key = "links-conditional" ->
             {IF Contains(target_triple, <<"-","a","p","p","l","e","-">>)
              THEN <<"-","h","i","d","d","e","n","-","l">> \o e["name"] ELSE <<"-","l">> \o e["name"]}
      [] key = "linker-args" -> {e["args"][i] : i \in 1..Len(e["args"])}

TargetConditionalKeys ==
    {"sources-conditional", "defines-conditional", "includes-conditional",
     "links-conditional", "linker-args"}

\* rec bounds the version on neither side
NoVersionBounds(rec) ==
    /\ "minimum-python-version" \notin DOMAIN rec
    /\ "maximum-python-version" \notin DOMAIN rec

\* C4: an entry of any target-conditional list whose targets list is absent or
\* empty (and that no version range excludes) is emitted for every target
\* triple, and synthesis does not fail on it.
C4_NoTargetsMatchesEveryTarget ==
    LineDue =>
        \A key \in TargetConditionalKeys :
            \A e \in Elements(extension_modules[name], key) :
                (NoTargets(e) /\ NoVersionBounds(e)) =>
                    /\ error.kind # "KeyError"
                    /\ EntryWords(key, e) \subseteq Words(line)

\* The defines of shape NAME=VALUE among the defines the line was given
ValuedDefines(n) ==
    {d \in {EmittedDefines(extension_modules[n], python_version,
                           target_triple)[i] :
               i \in 1..Len(EmittedDefines(extension_modules[n], python_version,
                                           target_triple))} :
        FirstFrom(d, 1, "=") > 1 /\ FirstFrom(d, 1, "=") < Len(d)}

\* The .c sources the line was given
CSources(n) ==
    {w \in {EmittedSources(extension_modules[n], python_version,
                           target_triple)[i] :
               i \in 1..Len(EmittedSources(extension_modules[n], python_version,
                                           target_triple))} :
        EndsWith(w, <<".","c">>)}

\* The modules that get a line: declared with sources, not ignored, not disabled
LineModules ==
    {n \in Declared :
        ~IsIgnored(n) /\ ~IsDisabled(n) /\ "sources" \in DOMAIN extension_modules[n]}

ManifestLines == SplitOn(result.setup_local, "\n")

MakeLines == SplitOn(result.make_data, "\n")

\* The module lines of the manifest: those before the *disabled* marker
ModuleLinesOf(n) ==
    {ManifestLines[i] :
        i \in {k \in 2..Len(ManifestLines) :
                  /\ k < FirstFrom(ManifestLines, 1, <<"*","d","i","s","a","b","l","e","d","*">>)
                  /\ SplitWs(ManifestLines[k]) # <<>>
                  /\ SplitWs(ManifestLines[k])[1] = n}}

\* C5: for a module with a line and a define NAME=VALUE, a run that returns
\* has a manifest line without "=", an override line of every object file of
\* the module's .c sources holding -DNAME=VALUE, and the define in one of the
\* two artifacts, also when the module has no .c source.
C5_ValuedDefinesAreHoisted ==
    pc = "returned" =>
        \A n \in LineModules : \A d \in ValuedDefines(n) :
            /\ ModuleLinesOf(n) # {}
            /\ \A l \in ModuleLinesOf(n) : ~Contains(l, <<"=">>)
            /\ \A w \in CSources(n) :
                   \E i \in 1..Len(MakeLines) :
                       /\ StartsWith(MakeLines[i],
                                     ExpectedObject(w, python_version) \o <<":">>)
                       /\ Contains(MakeLines[i], <<"-","D">> \o d)
            /\ \/ Contains(result.setup_local, <<"-","D">> \o d)
               \/ Contains(result.make_data, <<"-","D">> \o d)

\* w is one token of shape -D<name>=<value>
IsValuedDefineToken(w) ==
    /\ StartsWith(w, <<"-","D">>)
    /\ \A i \in 1..Len(w) : ~IsSpace(w[i])
    /\ FirstFrom(w, 3, "=") > 3
    /\ FirstFrom(w, 3, "=") < Len(w)

\* C10: hoisting moves only tokens of shape -D<name>=<value>: every other
\* word of the synthesized line is still in the manifest line, and every entry
\* of an override list is exactly one such token.
C10_OnlyValuedDefinesMove ==
    (LineSynthesized /\ pc # "raised") =>
        /\ \A w \in Words(line) :
               ~IsValuedDefineToken(w) => w \in Words(dest_lines[Len(dest_lines)])
        /\ \A o \in DOMAIN extra_cflags :
               \A i \in 1..Len(extra_cflags[o]) :
                   IsValuedDefineToken(extra_cflags[o][i])

\* The libraries the line was given
LinkedLibraries(n) ==
    {EmittedLinks(extension_modules[n], target_triple)[i] :
        i \in 1..Len(EmittedLinks(extension_modules[n], target_triple))}

\* C8: parsing the synthesized line again yields a record, never nothing and
\* never a failure, with the module's name, exactly the object paths of the
\* emitted .c sources, and every library emitted from links and
\* links-conditional, in the -l form and in the -hidden-l form alike.
C8_SynthesizedLineParsesBack ==
    LineSynthesized =>
        /\ parsed.kind = "record"
        /\ parsed.extension = name
        /\ parsed.posix_obj_paths =
               {ExpectedObject(w, python_version) : w \in CSources(name)}
        /\ LinkedLibraries(name) \subseteq parsed.links

C8_Witness ==
    /\ LineSynthesized
    /\ Contains(line, <<" ","-","X","l","i","n","k","e","r"," ","-","h","i","d","d","e","n","-","l","f","f","i">>)
    /\ Contains(line, <<" ","-","X","l","i","n","k","e","r"," ","-","h","i","d","d","e","n","-","l","i","c","o","n","v">>)
    /\ parsed.kind = "record"
    /\ parsed.links = {<<"f","f","i">>, <<"i","c","o","n","v">>}
    /\ parsed.posix_obj_paths =
           {<<"M","o","d","u","l","e","s","/","_","c","t","y","p","e","s","/","c","a","l","l","p","r","o","c",".","o">>, <<"M","o","d","u","l","e","s","/","_","c","t","y","p","e","s","/","_","c","t","y","p","e","s",".","o">>}

\* The manifest is the *static* marker, one line per module of mods in the
\* order of the names, a blank line, the *disabled* marker, and the names of
\* the disabled modules in order.
ManifestIs(mods) ==
    LET ls == ManifestLines
        k == Cardinality(mods)
        dis == Sorted({n \in Declared : IsDisabled(n)})
    IN /\ Len(ls) = k + Len(dis) + 5
       /\ ls[1] = <<"*","s","t","a","t","i","c","*">>
       /\ \A i \in 1..k :
              /\ SplitWs(ls[1 + i]) # <<>>
              /\ SplitWs(ls[1 + i])[1] = Sorted(mods)[i]
       /\ ls[k + 2] = <<>>
       /\ ls[k + 3] = <<"*","d","i","s","a","b","l","e","d","*">>
       /\ ls[k + 4] = <<>>
       /\ \A j \in 1..Len(dis) : ls[k + 4 + j] = dis[j]
       /\ ls[Len(ls)] = <<>>

\* C9 as claimed: the module lines are those of the declared modules that are
\* not ignored, not disabled and declare at least one source.
C9_LinesOfModulesWithASource ==
    pc = "returned" =>
        ManifestIs({n \in LineModules : extension_modules[n]["sources"] # <<>>})

\* C9 as amended: the module lines are those of the declared modules that are
\* not ignored, not disabled and have a sources entry, be it an empty list;
\* they follow *static* in the order of the names, then come *disabled* and
\* the disabled names in order; no name is in both and no ignored name in either.
C9_LinesOfModulesWithSources ==
    pc = "returned" =>
        /\ ManifestIs(LineModules)
        /\ \A n \in Declared :
               (IsIgnored(n) \/ IsDisabled(n)) => ModuleLinesOf(n) = {}

C9_Witness ==
    /\ pc = "returned"
    /\ Declared = {Math, Zlib}
    /\ Get(extension_modules[Math], "sources", <<Math>>) = <<>>
    /\ IsDisabled(Zlib)
    /\ ManifestLines =
           <<<<"*","s","t","a","t","i","c","*">>, Math, <<>>, <<"*","d","i","s","a","b","l","e","d","*">>, <<>>, Zlib, <<>>>>

====
